---- MODULE Spec2Model ----
(***************************************************************************)
(* Model of examples/ray-finetune-llm-deepspeed/utils_offline.py:          *)
(* the S3 URI parser, the ref resolver (get_hash_from_bucket), the path    *)
(* resolver (get_checkpoint_and_refs_dir, get_download_path) and the bulk  *)
(* downloader (download_model).                                            *)
(*                                                                         *)
(* Strings are sequences of one-character strings, so that startswith,     *)
(* split, rstrip, strip, replace, lower, "in" and os.path.join are         *)
(* computed character by character as the Python code computes them.      *)
(***************************************************************************)
EXTENDS Integers, Sequences, FiniteSets, TLC

VARIABLES pc, call, result, trace, mainFile, dirs, files, pages, truncated, objIdx

vars == <<pc, call, result, trace, mainFile, dirs, files, pages, truncated, objIdx>>

(***************************************************************************)
(* Bounds of the model.                                                    *)
(***************************************************************************)
MaxUriRest == 4
MaxPages == 2
MaxPageLen == 2

(***************************************************************************)
(* String helpers (Python str methods).                                    *)
(***************************************************************************)
E == <<>>

RECURSIVE StrsUpTo(_, _)
StrsUpTo(alphabet, n) ==
    IF n = 0 THEN {E}
    ELSE LET shorter == StrsUpTo(alphabet, n - 1)
         IN  shorter \cup {Append(s, c) : s \in shorter, c \in alphabet}

StartsWith(s, p) == Len(s) >= Len(p) /\ SubSeq(s, 1, Len(p)) = p

EndsWith(s, p) == Len(s) >= Len(p) /\ SubSeq(s, Len(s) - Len(p) + 1, Len(s)) = p

Contains(s, sub) == \E i \in 1..(Len(s) + 1) : StartsWith(SubSeq(s, i, Len(s)), sub)

\* index of the first occurrence of character c in s, 0 when there is none
FirstIndex(s, c) ==
    IF \E i \in 1..Len(s) : s[i] = c
    THEN CHOOSE i \in 1..Len(s) : s[i] = c /\ \A j \in 1..(i - 1) : s[j] # c
    ELSE 0

RECURSIVE RStrip(_, _)
RStrip(s, cs) ==
    IF Len(s) > 0 /\ s[Len(s)] \in cs THEN RStrip(SubSeq(s, 1, Len(s) - 1), cs) ELSE s

RECURSIVE LStrip(_, _)
LStrip(s, cs) ==
    IF Len(s) > 0 /\ s[1] \in cs THEN LStrip(SubSeq(s, 2, Len(s)), cs) ELSE s

Whitespace == {" ", "\n", "\t", "\r"}

\* a strip that forgets the leading whitespace
Strip_right_only(s) == RStrip(s, Whitespace)

Strip(s) == LStrip(RStrip(s, Whitespace), Whitespace)

RECURSIVE Replace(_, _, _)
Replace(s, c, by) ==
    IF s = E THEN E
    ELSE (IF s[1] = c THEN by ELSE <<s[1]>>) \o Replace(Tail(s), c, by)

LowerChar(c) ==
    CASE c = "T" -> "t"
      [] c = "O" -> "o"
      [] c = "K" -> "k"
      [] c = "E" -> "e"
      [] c = "N" -> "n"
      [] c = "X" -> "x"
      [] OTHER -> c

Lower(s) == [i \in 1..Len(s) |-> LowerChar(s[i])]

(***************************************************************************)
(* _parse_s3_uri                                                           *)
(***************************************************************************)
Scheme == <<"s", "3", ":", "/", "/">>

InvalidMsg == <<"I", "n", "v", "a", "l", "i", "d", " ", "S", "3", " ", "U", "R", "I", ":", " ">>

Ok(val) == [status |-> "ok", val |-> val]

Raise(kind, val) == [status |-> kind, val |-> val]

\* a parser that keeps the trailing slashes of the prefix
_parse_s3_uri_keeps_slashes(s3_uri) ==
    IF ~StartsWith(s3_uri, Scheme)
    THEN Raise("ValueError", <<InvalidMsg \o s3_uri>>)
    ELSE LET rest == SubSeq(s3_uri, 6, Len(s3_uri))
             i == FirstIndex(rest, "/")
             bucket == IF i > 0 THEN SubSeq(rest, 1, i - 1) ELSE rest
             prefix == IF i > 0 THEN SubSeq(rest, i + 1, Len(rest)) ELSE E
         IN  Ok(<<bucket, prefix>>)

\* a parser whose error does not name the offending string
_parse_s3_uri_anonymous_error(s3_uri) ==
    IF ~StartsWith(s3_uri, Scheme)
    THEN Raise("ValueError", <<InvalidMsg>>)
    ELSE LET rest == SubSeq(s3_uri, 6, Len(s3_uri))
             i == FirstIndex(rest, "/")
             bucket == IF i > 0 THEN SubSeq(rest, 1, i - 1) ELSE rest
             prefix == IF i > 0 THEN SubSeq(rest, i + 1, Len(rest)) ELSE E
         IN  Ok(<<bucket, RStrip(prefix, {"/"})>>)

_parse_s3_uri(s3_uri) ==
    IF ~StartsWith(s3_uri, Scheme)
    THEN Raise("ValueError", <<InvalidMsg \o s3_uri>>)
    ELSE LET rest == SubSeq(s3_uri, 6, Len(s3_uri))
             i == FirstIndex(rest, "/")
             bucket == IF i > 0 THEN SubSeq(rest, 1, i - 1) ELSE rest
             prefix == IF i > 0 THEN SubSeq(rest, i + 1, Len(rest)) ELSE E
         IN  Ok(<<bucket, RStrip(prefix, {"/"})>>)

(***************************************************************************)
(* Paths: os.path.join, the cache layout, and the local filesystem.        *)
(* A directory or file of the filesystem is identified by its resolved     *)
(* absolute path, a sequence of segments.                                  *)
(***************************************************************************)
\* posixpath.join(a, b)
Join(a, b) ==
    IF StartsWith(b, <<"/">>) THEN b
    ELSE IF a = E \/ EndsWith(a, <<"/">>) THEN a \o b
    ELSE a \o <<"/">> \o b

\* transformers.utils.hub.TRANSFORMERS_CACHE, an absolute directory
TRANSFORMERS_CACHE == <<"/", "c">>

ModelsDir == <<"m", "o", "d", "e", "l", "s", "-", "-">>

get_download_path(model_id) ==
    Join(TRANSFORMERS_CACHE, ModelsDir \o Replace(model_id, "/", <<"-", "-">>))

RECURSIVE Split(_, _)
Split(s, c) ==
    LET i == FirstIndex(s, c)
    IN  IF i = 0 THEN <<s>>
        ELSE <<SubSeq(s, 1, i - 1)>> \o Split(SubSeq(s, i + 1, Len(s)), c)

\* the segments of a path as pathlib and the kernel see them: empty and "."
\* segments do not count
Segments(path) == SelectSeq(Split(path, "/"), LAMBDA seg : seg # E /\ seg # <<".">>)

RECURSIVE Resolve(_)
Resolve(segs) ==
    IF segs = <<>> THEN <<>>
    ELSE LET head == Resolve(SubSeq(segs, 1, Len(segs) - 1))
             last == segs[Len(segs)]
         IN  IF last = <<".", ".">>
             THEN (IF head = <<>> THEN <<>> ELSE SubSeq(head, 1, Len(head) - 1))
             ELSE Append(head, last)

\* the directories mkdir -p walks through to create the directory at segs
Chain(segs) == {Resolve(SubSeq(segs, 1, k)) : k \in 0..Len(segs)}

\* os.makedirs(path, exist_ok=True) and Path.mkdir(parents=True, exist_ok=True):
\* fails when a path on the way is an existing regular file
MkdirFails(segs, fs) == Chain(segs) \cap fs # {}

\* pathlib.Path(path).parent
Parent(path) ==
    LET segs == Segments(path)
    IN  IF segs = <<>> THEN segs ELSE SubSeq(segs, 1, Len(segs) - 1)

(***************************************************************************)
(* Inputs.                                                                 *)
(***************************************************************************)
\* the strings handed to _parse_s3_uri on its own
UriHeads == {Scheme, <<"s", "3", ":", "/">>, <<"S", "3", ":", "/", "/">>, <<"h", "t", "t", "p", ":", "/", "/">>, E}

Uris == {h \o r : h \in UriHeads, r \in StrsUpTo({"b", "/"}, MaxUriRest)}

\* the bucket URIs handed to the public functions:
\* s3://b/m, s3://b/m/, s3://b and http://b/m
CallUris ==
    {Scheme \o <<"b", "/", "m">>, Scheme \o <<"b", "/", "m", "/">>, Scheme \o <<"b">>,
     <<"h", "t", "t", "p", ":", "/", "/", "b", "/", "m">>}

\* model ids o/m and m
ModelIds == {<<"o", "/", "m">>, <<"m">>}

\* bodies of the remote refs/main object, as bytes:
\* " h\n", "h", "g\t", "/x", "" and a body that is no UTF-8 text
Bodies == {<<32, 104, 10>>, <<104>>, <<103, 9>>, <<47, 120>>, <<>>, <<104, 255>>}

NoResponse == [ok |-> FALSE, bytes |-> <<>>]

\* what s3.get_object answers: an error, or a body
StoreResponses == {NoResponse} \cup {[ok |-> TRUE, bytes |-> b] : b \in Bodies}

Chr(byte) ==
    CASE byte = 9 -> "\t"
      [] byte = 10 -> "\n"
      [] byte = 32 -> " "
      [] byte = 47 -> "/"
      [] byte = 103 -> "g"
      [] byte = 104 -> "h"
      [] byte = 120 -> "x"

\* bytes.decode("utf-8"): a byte of 0xF8..0xFF occurs in no UTF-8 text
Utf8Valid(bytes) == \A i \in 1..Len(bytes) : bytes[i] < 128

Utf8Decode(bytes) == [i \in 1..Len(bytes) |-> Chr(bytes[i])]

(***************************************************************************)
(* State.                                                                  *)
(***************************************************************************)
NoFile == [exists |-> FALSE, text |-> E]

FileOf(text) == [exists |-> TRUE, text |-> text]

NoCall == [op |-> "none", model_id |-> E, uri |-> E, flag |-> FALSE, resp |-> NoResponse]

Call(op, model_id, uri, flag, resp) ==
    [op |-> op, model_id |-> model_id, uri |-> uri, flag |-> flag, resp |-> resp]

Event(ev, bucket, key, path, ok) == [ev |-> ev, bucket |-> bucket, key |-> key, path |-> path, ok |-> ok]

MainName == <<"m", "a", "i", "n">>

\* One call of one function is followed from its pre-state to its return or
\* its exception: the functions keep nothing in memory between calls, what a
\* call inherits is the filesystem.
Start(main) ==
    /\ pc = "idle"
    /\ call = NoCall
    /\ result = Ok(<<>>)
    /\ trace = <<>>
    /\ mainFile = main
    /\ dirs = {<<>>}
    /\ files = {}
    /\ pages = <<>>
    /\ truncated = FALSE
    /\ objIdx = 0

Init == Start(NoFile)

\* the file main may exist from an earlier call: it then holds some hash, "g"
InitRefs == \E main \in {NoFile, FileOf(<<"g">>)} : Start(main)

(***************************************************************************)
(* get_hash_from_bucket: the outcome of one run, from the URI, the store's *)
(* answer and the file main as it is before the call.                      *)
(***************************************************************************)
RefsMain == <<"r", "e", "f", "s", "/", "m", "a", "i", "n">>

RefKey(prefix) == IF prefix # E THEN prefix \o <<"/">> \o RefsMain ELSE RefsMain

\* a resolver that opens main for writing before it fetches the object
HashRun_opens_first(bucket_uri, resp, main) ==
    LET parsed == _parse_s3_uri(bucket_uri)
    IN  IF parsed.status # "ok"
        THEN [result |-> parsed, trace |-> <<>>, main |-> main]
        ELSE LET bucket == parsed.val[1]
                 key == RefKey(parsed.val[2])
                 got == <<Event("get_object", bucket, key, E, resp.ok)>>
             IN  IF ~resp.ok
                 THEN [result |-> Raise("ClientError", <<key>>), trace |-> got, main |-> FileOf(E)]
                 ELSE IF ~Utf8Valid(resp.bytes)
                 THEN [result |-> Raise("UnicodeDecodeError", <<>>), trace |-> got, main |-> FileOf(E)]
                 ELSE LET body == Strip(Utf8Decode(resp.bytes))
                      IN  [result |-> Ok(<<body>>),
                           trace |-> Append(got, Event("write", E, E, MainName, TRUE)),
                           main |-> FileOf(body)]

HashRun(bucket_uri, resp, main) ==
    LET parsed == _parse_s3_uri(bucket_uri)
    IN  IF parsed.status # "ok"
        THEN [result |-> parsed, trace |-> <<>>, main |-> main]
        ELSE LET bucket == parsed.val[1]
                 key == RefKey(parsed.val[2])
                 got == <<Event("get_object", bucket, key, E, resp.ok)>>
             IN  IF ~resp.ok
                 THEN [result |-> Raise("ClientError", <<key>>), trace |-> got, main |-> main]
                 ELSE IF ~Utf8Valid(resp.bytes)
                 THEN [result |-> Raise("UnicodeDecodeError", <<>>), trace |-> got, main |-> main]
                 ELSE LET body == Strip(Utf8Decode(resp.bytes))
                      IN  [result |-> Ok(<<body>>),
                           trace |-> Append(got, Event("write", E, E, MainName, TRUE)),
                           main |-> FileOf(body)]

Finished(r) == IF r.status = "ok" THEN "returned" ELSE "raised"

get_hash_from_bucket ==
    /\ pc = "idle"
    /\ \E uri \in CallUris, resp \in StoreResponses :
          LET run == HashRun(uri, resp, mainFile)
          IN  /\ call' = Call("get_hash_from_bucket", E, uri, FALSE, resp)
              /\ result' = run.result
              /\ trace' = run.trace
              /\ mainFile' = run.main
              /\ pc' = Finished(run.result)
    /\ UNCHANGED <<dirs, files, pages, truncated, objIdx>>

(***************************************************************************)
(* get_checkpoint_and_refs_dir                                             *)
(***************************************************************************)
Refs == <<"r", "e", "f", "s">>

Snapshots == <<"s", "n", "a", "p", "s", "h", "o", "t", "s">>

CheckpointRun(model_id, bucket_uri, resp, mkdir, main, ds, fs) ==
    LET run == HashRun(bucket_uri, resp, main)
    IN  IF run.result.status # "ok"
        THEN [result |-> run.result, trace |-> run.trace, main |-> run.main, dirs |-> ds]
        ELSE LET f_hash == run.result.val[1]
                 path == Join(TRANSFORMERS_CACHE, ModelsDir \o Replace(model_id, "/", <<"-", "-">>))
                 refs_dir == Join(path, Refs)
                 checkpoint_dir == Join(Join(path, Snapshots), f_hash)
                 ret == Ok(<<checkpoint_dir, refs_dir>>)
                 mk1 == Append(run.trace, Event("makedirs", E, E, refs_dir, ~MkdirFails(Segments(refs_dir), fs)))
                 ds1 == ds \cup Chain(Segments(refs_dir))
                 mk2 == Append(mk1, Event("makedirs", E, E, checkpoint_dir, ~MkdirFails(Segments(checkpoint_dir), fs)))
                 ds2 == ds1 \cup Chain(Segments(checkpoint_dir))
             IN  IF ~mkdir
                 THEN [result |-> ret, trace |-> run.trace, main |-> run.main, dirs |-> ds]
                 ELSE IF MkdirFails(Segments(refs_dir), fs)
                 THEN [result |-> Raise("OSError", <<refs_dir>>), trace |-> mk1, main |-> run.main, dirs |-> ds]
                 ELSE IF MkdirFails(Segments(checkpoint_dir), fs)
                 THEN [result |-> Raise("OSError", <<checkpoint_dir>>), trace |-> mk2, main |-> run.main, dirs |-> ds1]
                 ELSE [result |-> ret, trace |-> mk2, main |-> run.main, dirs |-> ds2]

get_checkpoint_and_refs_dir ==
    /\ pc = "idle"
    /\ \E model_id \in ModelIds, uri \in CallUris, resp \in StoreResponses, mkdir \in BOOLEAN :
          LET run == CheckpointRun(model_id, uri, resp, mkdir, mainFile, dirs, files)
          IN  /\ call' = Call("get_checkpoint_and_refs_dir", model_id, uri, mkdir, resp)
              /\ result' = run.result
              /\ trace' = run.trace
              /\ mainFile' = run.main
              /\ dirs' = run.dirs
              /\ pc' = Finished(run.result)
    /\ UNCHANGED <<files, pages, truncated, objIdx>>

_parse_s3_uri_call ==
    /\ pc = "idle"
    /\ \E uri \in Uris :
          /\ call' = Call("_parse_s3_uri", E, uri, FALSE, NoResponse)
          /\ result' = _parse_s3_uri(uri)
          /\ pc' = Finished(_parse_s3_uri(uri))
    /\ UNCHANGED <<trace, mainFile, dirs, files, pages, truncated, objIdx>>

NextParse == _parse_s3_uri_call

SpecParse == Init /\ [][NextParse]_vars

NextRefs == get_hash_from_bucket \/ get_checkpoint_and_refs_dir

SpecRefs == InitRefs /\ [][NextRefs]_vars

(***************************************************************************)
(* download_model, one step per store or filesystem operation.             *)
(***************************************************************************)
\* the relative parts of the keys a bucket may hold, in the order S3 lists
\* keys (ascending bytes): ../x, /x, Token, c, c/y, d/, token/v
RelPaths ==
    << <<".", ".", "/", "x">>, <<"/", "x">>, <<"T", "o", "k", "e", "n">>, <<"c">>,
       <<"c", "/", "y">>, <<"d", "/">>, <<"t", "o", "k", "e", "n", "/", "v">> >>

TokenWord == <<"t", "o", "k", "e", "n">>

\* the locals bucket, prefix and path of the running download_model
DlBucket == _parse_s3_uri(call.uri).val[1]

DlPrefix == _parse_s3_uri(call.uri).val[2]

DlPath == get_download_path(call.model_id)

\* kwargs["Prefix"], absent (empty) when the prefix is empty
ListPrefix(prefix) == IF prefix # E THEN prefix \o <<"/">> ELSE E

\* the i-th key of the bucket under the listed prefix
ListKey(prefix, i) == ListPrefix(prefix) \o RelPaths[i]

RECURSIVE Ascending(_)
Ascending(S) ==
    IF S = {} THEN <<>>
    ELSE LET lo == CHOOSE i \in S : \A j \in S : i <= j
         IN  <<lo>> \o Ascending(S \ {lo})

\* the keys listed so far, page after page
RECURSIVE Flatten(_)
Flatten(ps) == IF ps = <<>> THEN <<>> ELSE ps[1] \o Flatten(Tail(ps))

\* the pages list_objects_v2 may answer next: keys under the prefix that come
\* after every key already listed, at most MaxPageLen of them
NextPages(prefix, listed) ==
    LET later == {i \in 1..Len(RelPaths) :
                     \A j \in 1..Len(listed), k \in i..Len(RelPaths) : listed[j] # ListKey(prefix, k)}
        picks == {S \in SUBSET later : Cardinality(S) <= MaxPageLen}
    IN  {[n \in 1..Cardinality(S) |-> ListKey(prefix, Ascending(S)[n])] : S \in picks}

RelOf(prefix, key) == IF prefix # E THEN SubSeq(key, Len(prefix) + 2, Len(key)) ELSE key

\* the two "continue" tests of the loop body
Skipped(prefix, key, tokenizer_only) ==
    \/ EndsWith(key, <<"/">>)
    \/ tokenizer_only /\ ~Contains(Lower(RelOf(prefix, key)), TokenWord)

DestOf(path, prefix, key) == Join(path, RelOf(prefix, key))

download_model ==
    /\ pc = "idle"
    /\ \E model_id \in ModelIds, uri \in CallUris, tokenizer_only \in BOOLEAN :
          LET path == get_download_path(model_id)
              made == ~MkdirFails(Segments(path), files)
              parsed == _parse_s3_uri(uri)
          IN  /\ call' = Call("download_model", model_id, uri, tokenizer_only, NoResponse)
              /\ trace' = <<Event("makedirs", E, E, path, made)>>
              /\ dirs' = IF made THEN dirs \cup Chain(Segments(path)) ELSE dirs
              /\ result' = IF ~made THEN Raise("OSError", <<path>>) ELSE IF parsed.status # "ok" THEN parsed ELSE Ok(<<>>)
              /\ pc' = IF made /\ parsed.status = "ok" THEN "page" ELSE "raised"
              /\ truncated' = (made /\ parsed.status = "ok")
    /\ pages' = <<>>
    /\ objIdx' = 0
    /\ UNCHANGED <<mainFile, files>>

\* the paginator asks for the next page
list_page ==
    /\ pc = "page"
    /\ truncated
    /\ \/ /\ trace' = Append(trace, Event("list_objects_v2", DlBucket, ListPrefix(DlPrefix), E, FALSE))
          /\ result' = Raise("ClientError", <<>>)
          /\ pc' = "raised"
          /\ UNCHANGED <<pages, truncated, objIdx>>
       \/ \E page \in NextPages(DlPrefix, Flatten(pages)), more \in BOOLEAN :
             /\ more => Len(pages) + 1 < MaxPages
             /\ trace' = Append(trace, Event("list_objects_v2", DlBucket, ListPrefix(DlPrefix), E, TRUE))
             /\ pages' = Append(pages, page)
             /\ truncated' = more
             /\ objIdx' = 1
             /\ pc' = "obj"
             /\ UNCHANGED result
    /\ UNCHANGED <<call, mainFile, dirs, files>>

\* a loop body that copies without making the parent directory
next_object_no_parent_dir ==
    /\ pc = "obj"
    /\ LET page == pages[Len(pages)]
       IN  IF objIdx > Len(page)
           THEN /\ pc' = "page"
                /\ UNCHANGED objIdx
           ELSE IF Skipped(DlPrefix, page[objIdx], call.flag)
                THEN /\ objIdx' = objIdx + 1
                     /\ UNCHANGED pc
                ELSE /\ pc' = "copy"
                     /\ UNCHANGED objIdx
    /\ UNCHANGED <<call, result, trace, mainFile, dirs, files, pages, truncated>>

\* the loop over the page's contents: skip the object, or make its parent directory
next_object ==
    /\ pc = "obj"
    /\ LET page == pages[Len(pages)]
       IN  IF objIdx > Len(page)
           THEN /\ pc' = "page"
                /\ UNCHANGED <<objIdx, trace, dirs, result>>
           ELSE LET key == page[objIdx]
                    dest == DestOf(DlPath, DlPrefix, key)
                    made == ~MkdirFails(Parent(dest), files)
                IN  IF Skipped(DlPrefix, key, call.flag)
                    THEN /\ objIdx' = objIdx + 1
                         /\ UNCHANGED <<pc, trace, dirs, result>>
                    ELSE /\ trace' = Append(trace, Event("mkdir_parent", E, key, dest, made))
                         /\ dirs' = IF made THEN dirs \cup Chain(Parent(dest)) ELSE dirs
                         /\ result' = IF made THEN result ELSE Raise("OSError", <<dest>>)
                         /\ pc' = IF made THEN "copy" ELSE "raised"
                         /\ UNCHANGED objIdx
    /\ UNCHANGED <<call, mainFile, files, pages, truncated>>

\* a copy that skips a failing object and goes on with the next one
download_file_continues ==
    /\ pc = "copy"
    /\ LET key == pages[Len(pages)][objIdx]
           dest == DestOf(DlPath, DlPrefix, key)
           target == Resolve(Segments(dest))
       IN  \E ok \in BOOLEAN :
              /\ ok => target \notin dirs
              /\ trace' = Append(trace, Event("download_file", DlBucket, key, dest, ok))
              /\ files' = IF ok THEN files \cup {target} ELSE files
              /\ pc' = "obj"
              /\ objIdx' = objIdx + 1
    /\ UNCHANGED <<call, result, mainFile, dirs, pages, truncated>>

\* s3.download_file(bucket, key, dest)
download_file ==
    /\ pc = "copy"
    /\ LET key == pages[Len(pages)][objIdx]
           dest == DestOf(DlPath, DlPrefix, key)
           target == Resolve(Segments(dest))
       IN  \E ok \in BOOLEAN :
              /\ ok => target \notin dirs
              /\ trace' = Append(trace, Event("download_file", DlBucket, key, dest, ok))
              /\ files' = IF ok THEN files \cup {target} ELSE files
              /\ result' = IF ok THEN result ELSE Raise("ClientError", <<key>>)
              /\ pc' = IF ok THEN "obj" ELSE "raised"
              /\ objIdx' = IF ok THEN objIdx + 1 ELSE objIdx
    /\ UNCHANGED <<call, mainFile, dirs, pages, truncated>>

\* logger.info("Model downloaded to %s", path), after the last page
log_downloaded ==
    /\ pc = "page"
    /\ ~truncated
    /\ trace' = Append(trace, Event("log", E, E, DlPath, TRUE))
    /\ pc' = "returned"
    /\ UNCHANGED <<call, result, mainFile, dirs, files, pages, truncated, objIdx>>

NextDownload == download_model \/ list_page \/ next_object \/ download_file \/ log_downloaded

SpecDownload == Init /\ [][NextDownload]_vars

Next == _parse_s3_uri_call \/ get_hash_from_bucket \/ get_checkpoint_and_refs_dir \/ NextDownload

Spec == Init /\ [][Next]_vars

(***************************************************************************)
(* Properties of _parse_s3_uri.                                            *)
(***************************************************************************)
Slashes(k) == [i \in 1..k |-> "/"]

HasChar(s, c) == \E i \in 1..Len(s) : s[i] = c

\* C5: for every string that starts with s3://, _parse_s3_uri returns
\* (bucket, prefix) where bucket is the text between the scheme and the first
\* '/', and prefix is what follows that '/' with all trailing '/' removed; the
\* prefix never ends in '/' and is empty when nothing follows the bucket.
C5_ParseSplitsBucketAndPrefix ==
    (call.op = "_parse_s3_uri" /\ StartsWith(call.uri, Scheme)) =>
        /\ result.status = "ok"
        /\ LET rest == SubSeq(call.uri, 6, Len(call.uri))
               bucket == result.val[1]
               prefix == result.val[2]
           IN  /\ ~HasChar(bucket, "/")
               /\ ~EndsWith(prefix, <<"/">>)
               /\ IF HasChar(rest, "/")
                  THEN \E k \in 0..Len(rest) : rest = bucket \o <<"/">> \o prefix \o Slashes(k)
                  ELSE bucket = rest /\ prefix = E

\* a URI with a prefix and a trailing slash has been parsed
C5_Witness ==
    /\ call.op = "_parse_s3_uri"
    /\ result.status = "ok"
    /\ EndsWith(call.uri, <<"/">>)
    /\ result.val[1] = <<"b">>
    /\ result.val[2] = <<"b">>

StoreRequests == {"get_object", "list_objects_v2", "download_file"}

PublicOps == {"get_hash_from_bucket", "get_checkpoint_and_refs_dir", "download_model"}

\* C6: _parse_s3_uri raises the invalid-URI ValueError, naming the string, for
\* every string that does not start with s3:// and returns a result for every
\* string that does; in get_hash_from_bucket, get_checkpoint_and_refs_dir and
\* download_model that error reaches the caller, and no store request (get,
\* list or download) was made before it.
C6_InvalidUriRaises ==
    /\ call.op = "_parse_s3_uri" =>
          IF StartsWith(call.uri, Scheme)
          THEN result.status = "ok"
          ELSE result = [status |-> "ValueError", val |-> <<InvalidMsg \o call.uri>>]
    /\ (call.op \in PublicOps /\ ~StartsWith(call.uri, Scheme)) =>
          /\ pc = "raised"
          /\ result = [status |-> "ValueError", val |-> <<InvalidMsg \o call.uri>>]
          /\ \A i \in 1..Len(trace) : trace[i].ev \notin StoreRequests

\* download_model was called with http://b/m and raised
C6_Witness ==
    /\ call.op = "download_model"
    /\ call.uri = <<"h", "t", "t", "p", ":", "/", "/", "b", "/", "m">>
    /\ pc = "raised"
    /\ result.status = "ValueError"

\* C7: for every string _parse_s3_uri accepts, the returned bucket is
\* non-empty.
C7_BucketNonEmpty ==
    (call.op = "_parse_s3_uri" /\ result.status = "ok") => result.val[1] # E

(***************************************************************************)
(* Properties of get_hash_from_bucket and get_checkpoint_and_refs_dir.     *)
(***************************************************************************)
AllWhitespace(s) == \A i \in 1..Len(s) : s[i] \in Whitespace

\* text is body without its leading and trailing whitespace
IsStripped(text, body) ==
    /\ text = E \/ (text[1] \notin Whitespace /\ text[Len(text)] \notin Whitespace)
    /\ \E i \in 0..Len(body), j \in 0..Len(body) :
          /\ i + Len(text) + j = Len(body)
          /\ AllWhitespace(SubSeq(body, 1, i))
          /\ SubSeq(body, i + 1, i + Len(text)) = text
          /\ AllWhitespace(SubSeq(body, i + Len(text) + 1, Len(body)))

\* C3: a successful get_hash_from_bucket has fetched the object at
\* <prefix>/refs/main (refs/main when the parsed prefix is empty), returns its
\* decoded body without leading and trailing whitespace, and leaves the file
\* main holding exactly the returned string, whatever main held before.
C3_MainHoldsReturnedHash ==
    (call.op = "get_hash_from_bucket" /\ pc = "returned") =>
        LET parsed == _parse_s3_uri(call.uri).val
            wanted == IF parsed[2] = E THEN RefsMain ELSE parsed[2] \o <<"/">> \o RefsMain
        IN  /\ trace[1].ev = "get_object"
            /\ trace[1].bucket = parsed[1]
            /\ trace[1].key = wanted
            /\ \A i \in 2..Len(trace) : trace[i].ev \notin StoreRequests
            /\ IsStripped(result.val[1], Utf8Decode(call.resp.bytes))
            /\ mainFile = [exists |-> TRUE, text |-> result.val[1]]

\* a call that found main holding "g" fetched the body " h\n" from
\* m/refs/main and returned "h"
C3_Witness ==
    /\ call.op = "get_hash_from_bucket"
    /\ pc = "returned"
    /\ call.resp.bytes = <<32, 104, 10>>
    /\ trace[1].key = <<"m", "/">> \o RefsMain
    /\ result.val = << <<"h">> >>
    /\ mainFile.text = <<"h">>

CacheRootOf(model_id) == TRANSFORMERS_CACHE \o <<"/">> \o ModelsDir \o Replace(model_id, "/", <<"-", "-">>)

\* C4: get_checkpoint_and_refs_dir returns (checkpoint_dir, refs_dir) with
\* refs_dir = <root>/refs and checkpoint_dir = <root>/snapshots/<hash>, where
\* root = <cache_root>/models--<flattened id> and hash is the value the ref
\* resolver returned; with mkdir both directories exist afterwards, without
\* mkdir no directory is created.
C4_CheckpointLayout ==
    (call.op = "get_checkpoint_and_refs_dir" /\ pc = "returned") =>
        LET root == CacheRootOf(call.model_id)
            f_hash == mainFile.text
            refs_dir == root \o <<"/">> \o Refs
            checkpoint_dir == root \o <<"/">> \o Snapshots \o <<"/">> \o f_hash
        IN  /\ result.val = <<checkpoint_dir, refs_dir>>
            /\ call.flag => {Resolve(Segments(refs_dir)), Resolve(Segments(checkpoint_dir))} \subseteq dirs

FailsBeforeWrite == {"ValueError", "ClientError", "UnicodeDecodeError"}

\* C9: when get_hash_from_bucket or get_checkpoint_and_refs_dir fails before
\* the write step (malformed URI, fetch failure, undecodable body), the file
\* main is left exactly as it was and no directory is created.
C9_FailureLeavesMainAndDirs ==
    [][(/\ pc = "idle"
        /\ pc' = "raised"
        /\ call'.op \in {"get_hash_from_bucket", "get_checkpoint_and_refs_dir"}
        /\ result'.status \in FailsBeforeWrite)
       => (mainFile' = mainFile /\ dirs' = dirs /\ files' = files)]_vars

\* get_checkpoint_and_refs_dir with mkdir failed on an undecodable body while
\* main held "g" from an earlier call
C9_Witness ==
    /\ call.op = "get_checkpoint_and_refs_dir"
    /\ call.flag
    /\ pc = "raised"
    /\ result.status = "UnicodeDecodeError"
    /\ mainFile = [exists |-> TRUE, text |-> <<"g">>]
    /\ dirs = {<<>>}

(***************************************************************************)
(* Properties of download_model, stated over the record of the store and   *)
(* filesystem operations of the running call.                              *)
(***************************************************************************)
Downloading == call.op = "download_model" /\ _parse_s3_uri(call.uri).status = "ok"

\* the key with <prefix>/ stripped, or the key itself when the prefix is empty
RelativePath(key) ==
    LET prefix == _parse_s3_uri(call.uri).val[2]
    IN  IF prefix = E THEN key ELSE SubSeq(key, Len(prefix \o <<"/">>) + 1, Len(key))

\* the objects the call has to copy
Selected(key) ==
    /\ key[Len(key)] # "/"
    /\ call.flag =>
          LET rel == RelativePath(key)
          IN  \E i \in 1..(Len(rel) - 4) : Lower(SubSeq(rel, i, i + 4)) = TokenWord

SelectedKeys == SelectSeq(Flatten(pages), Selected)

IsCopy(e) == e.ev = "download_file"

IsGoodCopy(e) == e.ev = "download_file" /\ e.ok

Copies == SelectSeq(trace, IsGoodCopy)

LocalRoot == CacheRootOf(call.model_id)

\* C1: a completed download_model has downloaded, from the parsed bucket,
\* exactly the listed keys of all pages that do not end in '/' (and, with
\* tokenizer_only, whose relative path contains "token" in lower case), each
\* exactly once, each to <local root>/<relative path>.
C1_DownloadsExactlySelected ==
    (Downloading /\ pc = "returned") =>
        /\ Len(Copies) = Len(SelectedKeys)
        /\ \A i \in 1..Len(Copies) :
              /\ Copies[i].key = SelectedKeys[i]
              /\ Copies[i].bucket = _parse_s3_uri(call.uri).val[1]
              /\ Copies[i].path = LocalRoot \o <<"/">> \o RelativePath(SelectedKeys[i])

\* The part of C1 about which objects are copied, without their destination:
\* it holds of every completed call.
Aux_DownloadsSelectedKeys ==
    (Downloading /\ pc = "returned") =>
        /\ Len(Copies) = Len(SelectedKeys)
        /\ \A i \in 1..Len(Copies) :
              /\ Copies[i].key = SelectedKeys[i]
              /\ Copies[i].bucket = _parse_s3_uri(call.uri).val[1]

IsLog(e) == e.ev = "log"

\* C2: a failed copy is the last operation of download_model: the error
\* reaches the caller, nothing is downloaded or created after it, no object is
\* tried twice, the files written before it stay, and no completion entry is
\* logged; the completion entry is logged exactly once by a call that
\* returns, and only when every selected object was copied.
C2_FailedCopyAborts ==
    Downloading =>
        /\ \A i \in 1..Len(trace) :
              (IsCopy(trace[i]) /\ ~trace[i].ok) =>
                  /\ i = Len(trace)
                  /\ pc = "raised"
                  /\ result.status = "ClientError"
        /\ \A i \in 1..Len(trace), j \in 1..Len(trace) :
              (IsCopy(trace[i]) /\ IsCopy(trace[j]) /\ trace[i].key = trace[j].key) => i = j
        /\ \A i \in 1..Len(Copies) : Resolve(Segments(Copies[i].path)) \in files
        /\ Len(SelectSeq(trace, IsLog)) = (IF pc = "returned" THEN 1 ELSE 0)
        /\ pc = "returned" =>
              /\ IsLog(trace[Len(trace)])
              /\ \A k \in 1..Len(SelectedKeys) : \E i \in 1..Len(Copies) : Copies[i].key = SelectedKeys[k]

\* the second copy failed after a first one succeeded, with a selected object
\* still to come
C2_Witness ==
    /\ Downloading
    /\ pc = "raised"
    /\ Len(Copies) = 1
    /\ IsCopy(trace[Len(trace)])
    /\ ~trace[Len(trace)].ok
    /\ Len(SelectedKeys) = 3
    /\ files # {}

InsideRoot(path) == StartsWith(Resolve(Segments(path)), Resolve(Segments(LocalRoot)))

\* C8: whatever keys the listing returns, every destination download_model
\* writes to, and every parent directory it creates for one, is
\* <local root>/<relative path> and lies inside the local root.
C8_DestinationInsideRoot ==
    Downloading =>
        \A i \in 1..Len(trace) :
            trace[i].ev \in {"mkdir_parent", "download_file"} =>
                /\ trace[i].path = LocalRoot \o <<"/">> \o RelativePath(trace[i].key)
                /\ InsideRoot(trace[i].path)

NumListsBefore(i) == Len(SelectSeq(SubSeq(trace, 1, i), LAMBDA e : e.ev = "list_objects_v2"))

\* the page of the listing that holds the key
PageOf(key) == CHOOSE p \in 1..Len(pages) : \E n \in 1..Len(pages[p]) : pages[p][n] = key

Attempts == SelectSeq(trace, IsCopy)

\* C10: download_model creates the local root before the first listing
\* request, and then handles the selected objects one at a time in listing
\* order, page by page: each copy is immediately preceded by the
\* parent-directory step of the same object, and follows the copy of the
\* object before it.
C10_ListingOrder ==
    Downloading =>
        /\ trace[1].ev = "makedirs"
        /\ trace[1].path = LocalRoot
        /\ \A i \in 2..Len(trace) : trace[i].ev # "makedirs"
        /\ Len(Attempts) <= Len(SelectedKeys)
        /\ \A n \in 1..Len(Attempts) : Attempts[n].key = SelectedKeys[n]
        /\ \A i \in 1..Len(trace) :
              /\ IsCopy(trace[i]) =>
                    /\ trace[i - 1].ev = "mkdir_parent"
                    /\ trace[i - 1].ok
                    /\ trace[i - 1].key = trace[i].key
                    /\ NumListsBefore(i) = PageOf(trace[i].key)
              /\ (trace[i].ev = "mkdir_parent" /\ i < Len(trace)) =>
                    /\ IsCopy(trace[i + 1])
                    /\ trace[i + 1].key = trace[i].key
              /\ (trace[i].ev = "mkdir_parent" /\ i = Len(trace)) =>
                    pc = (IF trace[i].ok THEN "copy" ELSE "raised")

\* a call has returned after copying objects of two pages
C10_Witness ==
    /\ Downloading
    /\ pc = "returned"
    /\ Len(pages) = 2
    /\ Len(Copies) >= 3
    /\ PageOf(Copies[1].key) = 1
    /\ PageOf(Copies[Len(Copies)].key) = 2

====
